---- MODULE Spec2Model ----
(***************************************************************************)
(* NightCrawler (nightcrawler.py): a pool of asyncio worker tasks drains a *)
(* shared asyncio.Queue of URLs, loads every URL once in a browser page,   *)
(* merges the response headers and queues the links of the page that stay  *)
(* on the same network location.                                           *)
(*                                                                         *)
(* Strings are sequences of one-character strings, so that lower(), the    *)
(* substring test of is_html_page and the splitting done by urlparse are   *)
(* computed and not assumed.  asyncio runs one task at a time: an action   *)
(* is the code a task runs between two points where it really suspends.    *)
(***************************************************************************)
EXTENDS Integers, Sequences, FiniteSets, TLC

VARIABLES
    visited_urls,       \* line 8
    discovered_urls,    \* line 9
    response_headers,   \* line 10: header name -> value
    url_queue,          \* line 11: the items of the asyncio.Queue, head first
    unfinished_tasks,   \* asyncio.Queue's count of put items not yet task_done
    max_requests,       \* line 15 / 185: None or an integer
    start_url,          \* line 179
    site,               \* the web site: URL -> the href/src attributes of its elements, in DOM order
    mainPc,             \* where main() is
    joinWoken,          \* the future main() awaits inside url_queue.join() is resolved
    pc,                 \* where each worker task is
    cur,                \* crawl_page's url, per worker (None outside crawl_page)
    elements,           \* extract_links: the elements not yet read, per worker
    links,              \* extract_links: the local set links, per worker (both empty outside it)
    inserts,            \* history: URL -> number of visited_urls.add(url) executed
    gotos,              \* history: URL -> number of page.goto(url) started
    enqueuedBy,         \* history: <<u, v>>: crawl_page(u) put v on the queue
    lastSeen,           \* history: header name -> value of the latest response carrying it
    failed,             \* history: some Playwright call raised
    faults,             \* history: <<call, url>>: that call raised while url was crawled
    contexts,           \* browser.contexts: the browsing contexts that are open
    pages,              \* the pages that are open
    numGot,             \* history: items returned by url_queue.get()
    numDone             \* history: calls of url_queue.task_done()

vars == <<visited_urls, discovered_urls, response_headers, url_queue, unfinished_tasks,
          max_requests, start_url, site, mainPc, joinWoken, pc, cur, elements, links,
          inserts, gotos, enqueuedBy, lastSeen, failed, faults, contexts, pages,
          numGot, numDone>>

----------------------------------------------------------------------------
(* Bounds *)

NumWorkers == 2    \* worker tasks in the pool (the program starts 10, line 162)
MaxBudget == 2     \* largest --max-requests value tried
MaxFaults == 1     \* Playwright calls that raise in one run

Workers == 1..NumWorkers

----------------------------------------------------------------------------
(* Strings *)

None == <<>>       \* Python's None; also the empty string (both are falsy)

UpperChars == <<"A","B","C","D","E","F","G","H","I","J","K","L","M",
                "N","O","P","Q","R","S","T","U","V","W","X","Y","Z">>
LowerChars == <<"a","b","c","d","e","f","g","h","i","j","k","l","m",
                "n","o","p","q","r","s","t","u","v","w","x","y","z">>

\* upper-case letter -> its lower-case letter
LowerTable ==
    [c \in {UpperChars[i] : i \in DOMAIN UpperChars} |->
        LowerChars[CHOOSE i \in DOMAIN UpperChars : UpperChars[i] = c]]

\* str.lower() on one character
LowerChar(c) == IF c \in DOMAIN LowerTable THEN LowerTable[c] ELSE c

\* str.lower()
Lower(s) == [i \in DOMAIN s |-> LowerChar(s[i])]

\* Python's `sub in s`
Contains(s, sub) ==
    \E i \in 1..(Len(s) - Len(sub) + 1) : SubSeq(s, i, i + Len(sub) - 1) = sub

\* str.endswith
EndsWith(s, suf) ==
    Len(s) >= Len(suf) /\ SubSeq(s, Len(s) - Len(suf) + 1, Len(s)) = suf

\* s.find of the first character in chars, as the index where it is, or Len(s)+1
FindAny(s, chars) ==
    LET I == {i \in 1..Len(s) : s[i] \in chars}
    IN  IF I = {} THEN Len(s) + 1 ELSE CHOOSE i \in I : \A j \in I : i <= j

\* s[i:] with i counted from 1
From(s, i) == SubSeq(s, i, Len(s))

----------------------------------------------------------------------------
(* urllib.parse, as far as lines 72, 120 and 121 use it *)

SchemeChars == {LowerChars[i] : i \in DOMAIN LowerChars}
               \cup {UpperChars[i] : i \in DOMAIN UpperChars}
               \cup {"0","1","2","3","4","5","6","7","8","9","+","-","."}

\* urlsplit: the text before the first ':' is the scheme when it is made of scheme characters
HasScheme(url) ==
    LET i == FindAny(url, {":"})
    IN  /\ 1 < i /\ i <= Len(url)
        /\ LowerChar(url[1]) \in {LowerChars[k] : k \in DOMAIN LowerChars}
        /\ \A k \in 1..(i - 1) : url[k] \in SchemeChars

UrlScheme(url) ==
    IF HasScheme(url) THEN Lower(SubSeq(url, 1, FindAny(url, {":"}) - 1)) ELSE <<>>

AfterScheme(url) ==
    IF HasScheme(url) THEN From(url, FindAny(url, {":"}) + 1) ELSE url

HasNetloc(url) == Len(AfterScheme(url)) >= 2 /\ SubSeq(AfterScheme(url), 1, 2) = <<"/","/">>

\* urlsplit: after '//' the netloc runs up to the first of '/', '?', '#'
UrlNetloc(url) ==
    IF HasNetloc(url)
    THEN LET r == From(AfterScheme(url), 3)
         IN  SubSeq(r, 1, FindAny(r, {"/","?","#"}) - 1)
    ELSE <<>>

AfterNetloc(url) ==
    IF HasNetloc(url)
    THEN LET r == From(AfterScheme(url), 3) IN From(r, FindAny(r, {"/","?","#"}))
    ELSE AfterScheme(url)

\* urlsplit: the path is what precedes the fragment and the query
UrlPath(url) ==
    LET r == AfterNetloc(url) IN SubSeq(r, 1, FindAny(r, {"?","#"}) - 1)

\* SplitResult.hostname: the netloc without user information and port, lower-cased
UrlHostname(url) ==
    LET n  == UrlNetloc(url)
        at == {i \in 1..Len(n) : n[i] = "@"}
        h  == IF at = {} THEN n ELSE From(n, (CHOOSE i \in at : \A j \in at : j <= i) + 1)
    IN  Lower(SubSeq(h, 1, FindAny(h, {":"}) - 1))

\* SplitResult.port, as the digits written after the host (<<>> when none is written)
UrlPort(url) ==
    LET n  == UrlNetloc(url)
        at == {i \in 1..Len(n) : n[i] = "@"}
        h  == IF at = {} THEN n ELSE From(n, (CHOOSE i \in at : \A j \in at : j <= i) + 1)
    IN  From(h, FindAny(h, {":"}) + 1)

\* urljoin(base, link) for the two kinds of link the modelled site holds: a URL
\* with a scheme and a network location (returned as it is) and a reference
\* that starts with '/' (it replaces the path of base)
urljoin(base, link) ==
    IF HasScheme(link) THEN link
    ELSE IF HasNetloc(link) THEN UrlScheme(base) \o <<":">> \o link
    ELSE UrlScheme(base) \o <<":","/","/">> \o UrlNetloc(base) \o link

----------------------------------------------------------------------------
(* The program's constants and pure functions *)

Str_content_length == <<"c","o","n","t","e","n","t","-","l","e","n","g","t","h">>
Str_age            == <<"a","g","e">>
Str_date           == <<"d","a","t","e">>
Str_etag           == <<"e","t","a","g">>
Str_last_modified  == <<"l","a","s","t","-","m","o","d","i","f","i","e","d">>
Str_expires        == <<"e","x","p","i","r","e","s">>
Str_keep_alive     == <<"k","e","e","p","-","a","l","i","v","e">>

ignored_headers ==
    {Str_content_length, Str_age, Str_date, Str_etag,
     Str_last_modified, Str_expires, Str_keep_alive}

extensions_to_ignore == {<<".","j","s">>, <<".","c","s","s">>, <<".","j","s","o","n">>}


\* is_html_page with '.js' and '.json' forgotten in the list of line 52
is_html_page_css_only(url) == ~Contains(url, <<".","c","s","s">>)

\* line 53: no ignored extension occurs anywhere in the URL
is_html_page(url) == ~ \E ext \in extensions_to_ignore : Contains(url, ext)

\* Python's truth value of max_requests: None and 0 are false.  An integer n is <<n>>
Truthy(m) == m # None /\ m[1] # 0


\* line 101 without the test of visited_urls
CrawlSkip_no_visited(url) ==
    Truthy(max_requests) /\ Cardinality(visited_urls) >= max_requests[1]

\* line 101 without the test of max_requests
CrawlSkip_no_budget(url) == url \in visited_urls

\* line 101: crawl_page returns at once
CrawlSkip(url) ==
    \/ url \in visited_urls
    \/ Truthy(max_requests) /\ Cardinality(visited_urls) >= max_requests[1]

\* lines 121-122: the link is put on the queue
\* line 121 without the network-location test
Accepts_any_host(url, link) ==
    /\ link \notin visited_urls
    /\ (~Truthy(max_requests) \/ Cardinality(visited_urls) < max_requests[1])

\* line 122 without the Visited Set test
Accepts_revisits(url, link) ==
    /\ UrlNetloc(link) = UrlNetloc(url)
    /\ (~Truthy(max_requests) \/ Cardinality(visited_urls) < max_requests[1])

Accepts(url, link) ==
    /\ UrlNetloc(link) = UrlNetloc(url)
    /\ link \notin visited_urls
    /\ (~Truthy(max_requests) \/ Cardinality(visited_urls) < max_requests[1])


\* line 89 without .lower()
Recorded_case_sensitive(header) == header \notin ignored_headers

\* line 89: the header is stored
Recorded(header) == Lower(header) \notin ignored_headers


\* line 91 as response_headers.setdefault(header, value): the first value stays
MergeHeaders_first_wins(old, headers) ==
    LET keep == {h \in DOMAIN headers : Lower(h) \notin ignored_headers}
    IN  [h \in DOMAIN old \cup keep |-> IF h \in DOMAIN old THEN old[h] ELSE headers[h]]

\* lines 87-91: response_headers after handle_response on the dictionary headers
MergeHeaders(old, headers) ==
    LET keep == {h \in DOMAIN headers : Recorded(h)}
    IN  [h \in DOMAIN old \cup keep |-> IF h \in keep THEN headers[h] ELSE old[h]]

----------------------------------------------------------------------------
(* The inputs: URLs, web sites, responses *)

Https == <<"h","t","t","p","s">>
Http  == <<"h","t","t","p">>
Sep   == <<":","/","/">>
HostX == <<"x",".","t">>

UrlSeed  == Https \o Sep \o HostX \o <<"/">>                          \* https://x.t/
UrlA     == Https \o Sep \o HostX \o <<"/","a">>                      \* https://x.t/a
UrlJs    == Https \o Sep \o HostX \o <<"/","b",".","j","s">>          \* https://x.t/b.js
UrlJsp   == Https \o Sep \o HostX \o <<"/","f",".","j","s","p">>      \* https://x.t/f.jsp
UrlHttp  == Http  \o Sep \o HostX \o <<"/","c">>                      \* http://x.t/c
UrlPort8 == Https \o Sep \o HostX \o <<":","8","/","e">>              \* https://x.t:8/e
UrlOther == Https \o Sep \o <<"o",".","t","/","d">>                   \* https://o.t/d
RelA     == <<"/","a">>                                               \* /a
RelJs    == <<"/","b",".","j","s">>                                   \* /b.js

\* Scenario A of the specification, with an element whose attribute is empty
SiteA == (UrlSeed :> <<RelA, None, RelJs, UrlOther>>)

\* a cycle, and a page that two pages link to
SiteCycle == (UrlSeed :> <<UrlA, UrlJsp>>) @@ (UrlA :> <<UrlJsp, UrlSeed>>)
             @@ (UrlJsp :> <<UrlA, UrlSeed>>)

\* links to another scheme and to another port of the same host
SiteScheme == (UrlSeed :> <<UrlHttp, UrlPort8>>) @@ (UrlHttp :> <<UrlA>>)

Sites == {SiteA, SiteCycle, SiteScheme}

\* the href/src attributes of the elements of the page at url
PageElements(url) == IF url \in DOMAIN site THEN site[url] ELSE <<>>

H_Server == <<"S","e","r","v","e","r">>
H_server == <<"s","e","r","v","e","r">>
H_Date   == <<"D","a","t","e">>
H_ETAG   == <<"E","T","A","G">>

\* response.headers of the responses a page load can receive
Responses ==
    { (H_Server :> "nginx") @@ (H_Date :> "today"),
      (H_Server :> "apache"),
      (H_server :> "apache") @@ (H_ETAG :> "tag") }

Budgets == {None} \cup {<<n>> : n \in 0..MaxBudget}

\* the orders in which a for loop can iterate over the set S
Orders(S) == {s \in [1..Cardinality(S) -> S] : {s[i] : i \in DOMAIN s} = S}

Bump(f, x) == IF x \in DOMAIN f THEN [f EXCEPT ![x] = @ + 1] ELSE f @@ (x :> 1)
Count(f, x) == IF x \in DOMAIN f THEN f[x] ELSE 0

----------------------------------------------------------------------------
(* The state machine *)

Init ==
    /\ visited_urls = {}
    /\ discovered_urls = {}
    /\ response_headers = <<>>
    /\ url_queue = <<>>
    /\ unfinished_tasks = 0
    /\ max_requests \in Budgets
    /\ start_url = UrlSeed
    /\ site \in Sites
    /\ mainPc = "start"
    /\ joinWoken = FALSE
    /\ pc = [w \in Workers |-> "idle"]
    /\ cur = [w \in Workers |-> None]
    /\ elements = [w \in Workers |-> <<>>]
    /\ links = [w \in Workers |-> {}]
    /\ inserts = <<>>
    /\ gotos = <<>>
    /\ enqueuedBy = {}
    /\ lastSeen = <<>>
    /\ failed = FALSE
    /\ faults = {}
    /\ contexts = 0
    /\ pages = 0
    /\ numGot = 0
    /\ numDone = 0

\* lines 159-166: main puts the seed, creates the worker tasks and suspends in join()
MainStart ==
    /\ mainPc = "start"
    /\ url_queue' = Append(url_queue, start_url)
    /\ unfinished_tasks' = unfinished_tasks + 1
    /\ pc' = [w \in Workers |-> "get"]
    /\ mainPc' = "join"
    /\ UNCHANGED <<visited_urls, discovered_urls, response_headers, max_requests, start_url,
                   site, joinWoken, cur, elements, links, inserts, gotos, enqueuedBy,
                   lastSeen, failed, numGot, numDone, faults, contexts, pages>>

\* asyncio serves the tasks suspended in url_queue.get(), and wakes the tasks that
\* line 168 cancels, in the order in which they came.  The waiting workers are in
\* the same local state, so the one with the least index stands for the first
FirstWaiting(w) == \A v \in Workers : v < w => pc[v] # "get"

\* url_queue.task_done(): the count drops, and at zero the waiter of join() is woken
\* a join() that any task_done wakes, not only the one that brings the count to zero
TaskDone_wakes_join_always ==
    /\ unfinished_tasks' = unfinished_tasks - 1
    /\ numDone' = numDone + 1
    /\ joinWoken' = (joinWoken \/ mainPc = "join")

TaskDone ==
    /\ unfinished_tasks' = unfinished_tasks - 1
    /\ numDone' = numDone + 1
    /\ joinWoken' = (joinWoken \/ (mainPc = "join" /\ unfinished_tasks - 1 = 0))

\* lines 139-144 and 101-108: a worker takes the head of the queue; on the sentinel
\* it acknowledges and leaves, on a URL crawl_page either returns at once (and the
\* worker marks the item done) or records the URL and suspends in browser.new_context
Get(w) ==
    /\ pc[w] = "get"
    /\ FirstWaiting(w)
    /\ url_queue # <<>>
    /\ LET url == Head(url_queue) IN
       /\ url_queue' = Tail(url_queue)
       /\ numGot' = numGot + 1
       /\ IF url = None
          THEN /\ TaskDone
               /\ pc' = [pc EXCEPT ![w] = "exited"]
               /\ UNCHANGED <<visited_urls, inserts, cur>>
          ELSE IF CrawlSkip(url)
          THEN /\ TaskDone
               /\ UNCHANGED <<visited_urls, inserts, cur, pc>>
          ELSE /\ visited_urls' = visited_urls \cup {url}
               /\ inserts' = Bump(inserts, url)
               /\ cur' = [cur EXCEPT ![w] = url]
               /\ pc' = [pc EXCEPT ![w] = "new_context"]
               /\ UNCHANGED <<unfinished_tasks, numDone, joinWoken>>
    /\ UNCHANGED <<discovered_urls, response_headers, max_requests, start_url, site, mainPc,
                   elements, links, gotos, enqueuedBy, lastSeen, failed, faults, contexts, pages>>

\* line 108: browser.new_context returns; the worker suspends in context.new_page
NewContextOk(w) ==
    /\ pc[w] = "new_context"
    /\ pc' = [pc EXCEPT ![w] = "new_page"]
    /\ contexts' = contexts + 1
    /\ UNCHANGED <<visited_urls, discovered_urls, response_headers, url_queue,
                   unfinished_tasks, max_requests, start_url, site, mainPc, joinWoken, cur,
                   elements, links, inserts, gotos, enqueuedBy, lastSeen, failed, numGot,
                   numDone, faults, pages>>

\* lines 109-113: context.new_page returns, the response handler is registered and
\* page.goto starts
NewPageOk(w) ==
    /\ pc[w] = "new_page"
    /\ pc' = [pc EXCEPT ![w] = "goto"]
    /\ gotos' = Bump(gotos, cur[w])
    /\ pages' = pages + 1
    /\ UNCHANGED <<visited_urls, discovered_urls, response_headers, url_queue,
                   unfinished_tasks, max_requests, start_url, site, mainPc, joinWoken, cur,
                   elements, links, inserts, enqueuedBy, lastSeen, failed, numGot, numDone, faults, contexts>>

\* lines 108-109 are outside the try block: an exception raised there leaves
\* crawl_page and ends the worker task, before line 144
AcquireFail(w) ==
    /\ pc[w] \in {"new_context", "new_page"}
    /\ Cardinality(faults) < MaxFaults
    /\ pc' = [pc EXCEPT ![w] = "dead"]
    /\ failed' = TRUE
    /\ faults' = faults \cup {<<"acquire", cur[w]>>}
    /\ cur' = [cur EXCEPT ![w] = None]
    /\ UNCHANGED <<visited_urls, discovered_urls, response_headers, url_queue,
                   unfinished_tasks, max_requests, start_url, site, mainPc, joinWoken,
                   elements, links, inserts, gotos, enqueuedBy, lastSeen, numGot, numDone, contexts, pages>>

\* lines 79-91: a response of the open page arrives
Response(w, headers) ==
    /\ pc[w] \in {"goto", "query", "attr"}
    /\ response_headers' = MergeHeaders(response_headers, headers)
    /\ lastSeen' = [h \in DOMAIN lastSeen \cup DOMAIN headers |->
                       IF h \in DOMAIN headers THEN headers[h] ELSE lastSeen[h]]
    /\ UNCHANGED <<visited_urls, discovered_urls, url_queue, unfinished_tasks, max_requests,
                   start_url, site, mainPc, joinWoken, pc, cur, elements, links, inserts,
                   gotos, enqueuedBy, failed, numGot, numDone, faults, contexts, pages>>

\* lines 113-118 and 68: the page is loaded and scrolled; extract_links suspends in
\* page.query_selector_all
GotoOk(w) ==
    /\ pc[w] = "goto"
    /\ pc' = [pc EXCEPT ![w] = "query"]
    /\ links' = [links EXCEPT ![w] = {}]
    /\ UNCHANGED <<visited_urls, discovered_urls, response_headers, url_queue,
                   unfinished_tasks, max_requests, start_url, site, mainPc, joinWoken, cur,
                   elements, inserts, gotos, enqueuedBy, lastSeen, failed, numGot, numDone, faults, contexts, pages>>

\* lines 113-116 raise and no except clause catches the exception: it ends the worker
GotoFail_uncaught(w) ==
    /\ pc[w] = "goto"
    /\ Cardinality(faults) < MaxFaults
    /\ pc' = [pc EXCEPT ![w] = "dead"]
    /\ failed' = TRUE
    /\ faults' = faults \cup {<<"goto", cur[w]>>}
    /\ cur' = [cur EXCEPT ![w] = None]
    /\ UNCHANGED <<visited_urls, discovered_urls, response_headers, url_queue,
                   unfinished_tasks, max_requests, start_url, site, mainPc, joinWoken,
                   elements, links, inserts, gotos, enqueuedBy, lastSeen, numGot, numDone,
                   contexts, pages>>

\* lines 113-116 raise: lines 126-129, the worker suspends in page.close
GotoFail(w) ==
    /\ pc[w] = "goto"
    /\ Cardinality(faults) < MaxFaults
    /\ pc' = [pc EXCEPT ![w] = "close"]
    /\ failed' = TRUE
    /\ faults' = faults \cup {<<"goto", cur[w]>>}
    /\ UNCHANGED <<visited_urls, discovered_urls, response_headers, url_queue,
                   unfinished_tasks, max_requests, start_url, site, mainPc, joinWoken, cur,
                   elements, links, inserts, gotos, enqueuedBy, lastSeen, numGot, numDone, contexts, pages>>

\* lines 119-129: extract_links has returned found; the loop over it runs without
\* suspending (the queue is unbounded, so put never waits), then the worker suspends
\* in page.close
EnqueueLinks(w, found) ==
    LET new == {l \in found : Accepts(cur[w], l)} IN
    /\ \E order \in Orders(new) : url_queue' = url_queue \o order
    /\ unfinished_tasks' = unfinished_tasks + Cardinality(new)
    /\ discovered_urls' = discovered_urls \cup {l \in new : is_html_page(l)}
    /\ enqueuedBy' = enqueuedBy \cup {<<cur[w], l>> : l \in new}
    /\ elements' = [elements EXCEPT ![w] = <<>>]
    /\ links' = [links EXCEPT ![w] = {}]
    /\ pc' = [pc EXCEPT ![w] = "close"]

\* lines 69-74 on the attribute of one element: links after it
AddLink(w, link) ==
    IF link # None /\ urljoin(cur[w], link) \notin visited_urls
    THEN links[w] \cup {urljoin(cur[w], link)}
    ELSE links[w]

\* line 68 returns the elements; with none, extract_links returns at once
QueryOk(w) ==
    /\ pc[w] = "query"
    /\ IF PageElements(cur[w]) = <<>>
       THEN EnqueueLinks(w, links[w])
       ELSE /\ elements' = [elements EXCEPT ![w] = PageElements(cur[w])]
            /\ pc' = [pc EXCEPT ![w] = "attr"]
            /\ UNCHANGED <<url_queue, unfinished_tasks, discovered_urls, enqueuedBy, links>>
    /\ UNCHANGED <<visited_urls, response_headers, max_requests, start_url, site, mainPc,
                   joinWoken, cur, inserts, gotos, lastSeen, failed, numGot, numDone, faults, contexts, pages>>

\* line 70 returns the attribute of the next element, lines 71-74 handle it; after
\* the last element extract_links returns
AttrOk(w) ==
    /\ pc[w] = "attr"
    /\ IF Tail(elements[w]) = <<>>
       THEN EnqueueLinks(w, AddLink(w, Head(elements[w])))
       ELSE /\ elements' = [elements EXCEPT ![w] = Tail(elements[w])]
            /\ links' = [links EXCEPT ![w] = AddLink(w, Head(elements[w]))]
            /\ UNCHANGED <<url_queue, unfinished_tasks, discovered_urls, enqueuedBy, pc>>
    /\ UNCHANGED <<visited_urls, response_headers, max_requests, start_url, site, mainPc,
                   joinWoken, cur, inserts, gotos, lastSeen, failed, numGot, numDone, faults, contexts, pages>>

\* line 68 or line 70 raises: line 75 catches it and line 77 returns the links
\* collected so far
ExtractFail(w) ==
    /\ pc[w] \in {"query", "attr"}
    /\ Cardinality(faults) < MaxFaults
    /\ failed' = TRUE
    /\ faults' = faults \cup {<<"extract", cur[w]>>}
    /\ EnqueueLinks(w, links[w])
    /\ UNCHANGED <<visited_urls, response_headers, max_requests, start_url, site, mainPc,
                   joinWoken, cur, inserts, gotos, lastSeen, numGot, numDone, contexts, pages>>

\* line 129 returns, line 144 marks the item done and the worker is back at line 139
PageCloseOk(w) ==
    /\ pc[w] = "close"
    /\ TaskDone
    /\ pc' = [pc EXCEPT ![w] = "get"]
    /\ cur' = [cur EXCEPT ![w] = None]
    /\ pages' = pages - 1
    /\ UNCHANGED <<visited_urls, discovered_urls, response_headers, url_queue, max_requests,
                   start_url, site, mainPc, elements, links, inserts, gotos,
                   enqueuedBy, lastSeen, failed, numGot, faults, contexts>>

\* line 129 raises inside the finally block: the exception ends the worker task; the
\* page is closed or not
PageCloseFail(w) ==
    /\ pc[w] = "close"
    /\ Cardinality(faults) < MaxFaults
    /\ pc' = [pc EXCEPT ![w] = "dead"]
    /\ failed' = TRUE
    /\ faults' = faults \cup {<<"close", cur[w]>>}
    /\ cur' = [cur EXCEPT ![w] = None]
    /\ pages' \in {pages, pages - 1}
    /\ UNCHANGED <<visited_urls, discovered_urls, response_headers, url_queue,
                   unfinished_tasks, max_requests, start_url, site, mainPc, joinWoken,
                   elements, links, inserts, gotos, enqueuedBy, lastSeen, numGot, numDone, contexts>>


\* line 166 as a wait for url_queue.empty() in place of url_queue.join()
MainJoinReturn_on_empty ==
    /\ mainPc = "join"
    /\ url_queue = <<>>
    /\ mainPc' = "closing"
    /\ UNCHANGED <<visited_urls, discovered_urls, response_headers, url_queue,
                   unfinished_tasks, max_requests, start_url, site, joinWoken, pc, cur,
                   elements, links, inserts, gotos, enqueuedBy, lastSeen, failed, numGot,
                   numDone, faults, contexts, pages>>

\* lines 166-170: join() returns, main cancels every task and suspends in browser.close
MainJoinReturn ==
    /\ mainPc = "join"
    /\ joinWoken
    /\ mainPc' = "closing"
    /\ UNCHANGED <<visited_urls, discovered_urls, response_headers, url_queue,
                   unfinished_tasks, max_requests, start_url, site, joinWoken, pc, cur,
                   elements, links, inserts, gotos, enqueuedBy, lastSeen, failed, numGot,
                   numDone, faults, contexts, pages>>

\* line 168 takes effect: a worker suspended in url_queue.get() is cancelled
Cancelled(w) ==
    /\ mainPc \in {"closing", "done"}
    /\ pc[w] = "get"
    /\ FirstWaiting(w)
    /\ pc' = [pc EXCEPT ![w] = "cancelled"]
    /\ UNCHANGED <<visited_urls, discovered_urls, response_headers, url_queue,
                   unfinished_tasks, max_requests, start_url, site, mainPc, joinWoken, cur,
                   elements, links, inserts, gotos, enqueuedBy, lastSeen, failed, numGot,
                   numDone, faults, contexts, pages>>

\* lines 170-172: browser.close returns (it closes every context and page that is
\* open) and main returns the two collections.  The event loop runs the wake-ups
\* that line 168 scheduled before it resumes main
MainClose ==
    /\ mainPc = "closing"
    /\ \A w \in Workers : pc[w] # "get"
    /\ mainPc' = "done"
    /\ contexts' = 0
    /\ pages' = 0
    /\ UNCHANGED <<visited_urls, discovered_urls, response_headers, url_queue,
                   unfinished_tasks, max_requests, start_url, site, joinWoken, pc, cur,
                   elements, links, inserts, gotos, enqueuedBy, lastSeen, failed, numGot,
                   numDone, faults>>

WorkerStep(w) ==
    \/ Get(w)
    \/ NewContextOk(w)
    \/ NewPageOk(w)
    \/ AcquireFail(w)
    \/ GotoOk(w)
    \/ GotoFail(w)
    \/ QueryOk(w)
    \/ AttrOk(w)
    \/ ExtractFail(w)
    \/ PageCloseOk(w)
    \/ PageCloseFail(w)
    \/ Cancelled(w)

\* the steps of a worker in which no Playwright call raises
OkStep(w) ==
    \/ Get(w)
    \/ NewContextOk(w)
    \/ NewPageOk(w)
    \/ GotoOk(w)
    \/ QueryOk(w)
    \/ AttrOk(w)
    \/ PageCloseOk(w)
    \/ Cancelled(w)

MainStep == MainStart \/ MainJoinReturn \/ MainClose

Next ==
    \/ MainStep
    \/ \E w \in Workers : WorkerStep(w)
    \/ \E w \in Workers, headers \in Responses : Response(w, headers)

Spec == Init /\ [][Next]_vars

\* asyncio runs every task that is ready: no worker step and no step of main that
\* stays enabled is postponed for ever (a page load returns or fails)
FairSpec ==
    /\ Spec
    /\ WF_vars(MainStep)
    /\ \A w \in Workers : WF_vars(WorkerStep(w))

----------------------------------------------------------------------------
(* Notions of the specification, used to state the claims *)

Crawling(w) == pc[w] \in {"new_context", "new_page", "goto", "query", "attr", "close"}

\* same origin: scheme, host and port agree
SameOrigin(u, v) ==
    /\ UrlScheme(u) = UrlScheme(v)
    /\ UrlHostname(u) = UrlHostname(v)
    /\ UrlPort(u) = UrlPort(v)

\* the path of the URL ends in .js, .css or .json
AssetPath(u) == \E ext \in extensions_to_ignore : EndsWith(UrlPath(u), ext)

\* the ignored names, case folded
IgnoredFolded == {Lower(ig) : ig \in ignored_headers}

\* the name equals an ignored name, ignoring case
IgnoredIgnoringCase(name) == Lower(name) \in IgnoredFolded

\* the URLs that the elements of page u refer to
LinkTargets(u) ==
    {urljoin(u, PageElements(u)[i]) : i \in {j \in DOMAIN PageElements(u) : PageElements(u)[j] # None}}

\* the same-origin links of page u
OriginLinks(u) == {v \in LinkTargets(u) : SameOrigin(u, v)}

RECURSIVE ReachVia(_, _)
\* S and all that S reaches in one or more same-origin links
ReachVia(S, seen) ==
    LET step == UNION {OriginLinks(u) : u \in S} \ seen
    IN  IF step = {} THEN seen ELSE ReachVia(step, seen \cup step)

RECURSIVE ReachAny(_, _)
ReachAny(S, seen) ==
    LET step == UNION {LinkTargets(u) : u \in S} \ seen
    IN  IF step = {} THEN seen ELSE ReachAny(step, seen \cup step)

\* no page of the site reaches itself
Acyclic == \A u \in DOMAIN site : u \notin ReachAny({u}, {})

\* the pages reachable from the seed through same-origin links, assets left out
ReachablePages == {v \in ReachVia({start_url}, {}) : ~AssetPath(v)}

----------------------------------------------------------------------------
(* The claims *)

\* C1: each URL is inserted into the Visited Set at most once and its page load is
\* started by at most one worker, also when the URL was queued several times
C1_AtMostOneCrawl ==
    /\ \A u \in DOMAIN inserts : inserts[u] <= 1
    /\ \A u \in DOMAIN gotos : gotos[u] <= 1
    /\ \A v, w \in Workers : (v # w /\ Crawling(v) /\ Crawling(w)) => cur[v] # cur[w]

\* a URL that two different pages put on the queue has been loaded, and the run is over
C1_Witness ==
    /\ mainPc = "done"
    /\ \E p \in enqueuedBy, q \in enqueuedBy :
           p[1] # q[1] /\ p[2] = q[2] /\ Count(gotos, p[2]) = 1

\* C2: with a Request Budget N >= 1 the Visited Set never holds more than N URLs
C2_BudgetCeiling ==
    (max_requests # None /\ max_requests[1] >= 1)
        => Cardinality(visited_urls) <= max_requests[1]

\* the budget is reached and a queued URL was taken from the queue and not crawled
C2_Witness ==
    /\ max_requests # None /\ max_requests[1] >= 1
    /\ Cardinality(visited_urls) = max_requests[1]
    /\ url_queue = <<>>
    /\ \E p \in enqueuedBy : p[2] \notin visited_urls

\* C3: a URL put on the queue while page u is crawled has the scheme, the host and
\* the port of u
C3_SameOriginEnqueued == \A p \in enqueuedBy : SameOrigin(p[1], p[2])

\* C4: the Discovered Set holds no URL whose path ends in .js, .css or .json
C4_NoAssetDiscovered == \A u \in discovered_urls : ~AssetPath(u)

\* an asset URL was put on the queue and another URL was discovered
C4_Witness ==
    /\ \E p \in enqueuedBy : AssetPath(p[2])
    /\ discovered_urls # {}

\* C5: a header name that is not ignored maps to the value of the latest response
\* that carried it
C5_LastWriteWins ==
    \A X \in DOMAIN lastSeen :
        ~IgnoredIgnoringCase(X) => (X \in DOMAIN response_headers /\ response_headers[X] = lastSeen[X])

\* Server came with nginx (the response that also carries Date) and later with
\* apache, and the run is over
C5_Witness ==
    /\ mainPc = "done"
    /\ H_Date \in DOMAIN lastSeen
    /\ H_Server \in DOMAIN lastSeen /\ lastSeen[H_Server] = "apache"

\* C6: no key of the Header Map equals an ignored name, ignoring case
C6_NoIgnoredKey ==
    \A k \in DOMAIN response_headers : ~IgnoredIgnoringCase(k)

\* responses carried Date and ETAG, and the Header Map holds a header
C6_Witness ==
    /\ H_Date \in DOMAIN lastSeen /\ H_ETAG \in DOMAIN lastSeen
    /\ DOMAIN response_headers # {}

\* C7: on an acyclic site, without budget and without failure, the final Discovered
\* Set is the set of pages reachable from the seed through same-origin links
C7_DiscoversReachable ==
    (mainPc = "done" /\ max_requests = None /\ ~failed /\ Acyclic)
        => discovered_urls = ReachablePages

\* C8: the join returns and the run completes
C8_RunCompletes == <>(mainPc = "done")

\* C9: once join has returned the queue is empty, every item taken from it is
\* marked done and no worker is crawling
C9_JoinQuiescent ==
    mainPc \in {"closing", "done"} =>
        /\ url_queue = <<>>
        /\ unfinished_tasks = 0
        /\ numDone = numGot
        /\ \A w \in Workers : ~Crawling(w)

\* join has just returned after several items went through the queue
C9_Witness == mainPc = "closing" /\ numGot >= 3

\* C10: when the run is over every worker has left through the sentinel branch
\* (lines 140-142), one sentinel each
C10_SentinelShutdown ==
    mainPc = "done" => \A w \in Workers : pc[w] = "exited"

\* C11: when the navigation to the seed fails before any response and nothing else
\* fails, nothing is discovered, no header is kept, no worker is lost, and the run
\* goes on until main has returned
SeedNavigationFailed == faults = {<<"goto", start_url>>} /\ lastSeen = <<>>

C11_SeedNavigationFailure ==
    SeedNavigationFailed =>
        /\ discovered_urls = {}
        /\ response_headers = <<>>
        /\ visited_urls = {start_url}
        /\ url_queue = <<>>
        /\ \A w \in Workers : pc[w] # "dead"
        /\ (mainPc = "done" \/ ENABLED (MainStep \/ \E w \in Workers : OkStep(w)))

\* the navigation to the seed failed and main has returned
C11_Witness == SeedNavigationFailed /\ mainPc = "done"

\* C12: every item taken from the queue is marked done once, whatever the outcome,
\* and its worker goes on: the items not yet marked done are those being crawled,
\* and no worker is lost
C12_EveryItemMarkedDone ==
    /\ numGot = numDone + Cardinality({w \in Workers : Crawling(w)})
    /\ \A w \in Workers : pc[w] # "dead"

\* C13: a context or page that is open belongs to a worker that is still processing
\* the URL it was opened for, and none is open when the run is over
C13_ResourcesReleased ==
    /\ contexts = Cardinality({w \in Workers : pc[w] \in {"new_page", "goto", "query", "attr", "close"}})
    /\ pages = Cardinality({w \in Workers : pc[w] \in {"goto", "query", "attr", "close"}})
    /\ (mainPc = "done" => contexts = 0 /\ pages = 0)

\* C14: a URL that was put on the queue is in the Discovered Set exactly when its
\* path does not end in .js, .css or .json
C14_DiscoveredIffPagePath ==
    \A p \in enqueuedBy : (p[2] \in discovered_urls) <=> ~AssetPath(p[2])

\* C15: a page whose navigation or link extraction failed has put no link on the
\* queue (and so none in the Discovered Set)
C15_FailedPageContributesNothing ==
    \A f \in faults : f[1] \in {"goto", "extract"} => \A p \in enqueuedBy : p[1] # f[2]

\* C16: the Header Map holds at most one entry per header name, compared ignoring case
C16_OneEntryPerName ==
    \A a \in DOMAIN response_headers : \A b \in DOMAIN response_headers :
        Lower(a) = Lower(b) => a = b

\* C17: with a budget of 0 no URL is inserted into the Visited Set and none is discovered
C17_ZeroBudgetCrawlsNothing ==
    max_requests = <<0>> => (visited_urls = {} /\ discovered_urls = {})

\* C18: when main cancels the workers (join has returned) every worker that is
\* alive is suspended in url_queue.get() on an empty queue with no crawl in hand,
\* and from then on the collected results do not change
C18_CancelAbandonsNothing ==
    [][/\ (mainPc = "join" /\ mainPc' = "closing") =>
              /\ url_queue = <<>>
              /\ \A w \in Workers : pc[w] \notin {"dead", "exited"} =>
                     (pc[w] = "get" /\ cur[w] = None /\ links[w] = {} /\ elements[w] = <<>>)
       /\ mainPc \in {"closing", "done"} =>
              /\ UNCHANGED <<visited_urls, discovered_urls, response_headers, url_queue>>
              /\ \A w \in Workers : pc'[w] \in {"get", "cancelled", "dead", "exited"}]_vars

\* the workers are about to be cancelled after a crawl of several pages
C18_Witness ==
    /\ mainPc = "closing"
    /\ \A w \in Workers : pc[w] = "get"
    /\ Cardinality(visited_urls) >= 2

\* C19: every URL in the Visited Set, on the queue and in the Discovered Set has
\* the network location of the seed URL, hence its host and its port
C19_SameNetlocAsSeed ==
    \A u \in visited_urls \cup {url_queue[i] : i \in DOMAIN url_queue} \cup discovered_urls :
        /\ UrlNetloc(u) = UrlNetloc(start_url)
        /\ UrlHostname(u) = UrlHostname(start_url)
        /\ UrlPort(u) = UrlPort(start_url)

\* a page reached through another page has been crawled on a site whose seed page
\* links to another port of the same host
C19_Witness ==
    /\ site = SiteScheme
    /\ UrlA \in visited_urls
    /\ mainPc = "done"

\* C20: line 125 adds a URL to the Discovered Set only while it is not in the
\* Visited Set, and the seed URL is never in the Discovered Set
C20_DiscoveredWhenUnvisited ==
    [][/\ \A p \in enqueuedBy' \ enqueuedBy : is_html_page(p[2]) => p[2] \notin visited_urls
       /\ \A u \in discovered_urls' \ discovered_urls : u \notin visited_urls
       /\ start_url \notin discovered_urls']_vars

\* a worker holds a link that was visited after it read it, on a page that links
\* back to the seed
C20_Witness ==
    \E w \in Workers :
        /\ Crawling(w)
        /\ links[w] \cap visited_urls # {}
        /\ start_url \in LinkTargets(cur[w])

====
